---- MODULE Spec2Model ----
(***************************************************************************)
(* Model of BookingService (src/booking.service.ts): the in-memory ledger  *)
(* of bookings, its validation, its create / update / delete / boarding    *)
(* operations and its boarding algorithm, with the figures that            *)
(* BoardingComponent (src/unnamed/part_001) derives from them.             *)
(*                                                                         *)
(* Strings (seat ids, mobile numbers, booking ids) are sequences of UTF-16 *)
(* code units, so that sorting, the mobile regular expression and the id   *)
(* concatenation are computed as the code computes them.                   *)
(* A travel date "YYYY-MM-DD" is the number of its day; an instant is a    *)
(* number of clock units, UnitsPerDay of them to a day, counted in UTC.    *)
(***************************************************************************)
EXTENDS Integers, Sequences, FiniteSets, TLC

VARIABLES
    bookings,   \* BookingService.bookings: the list of stored bookings
    stored,     \* localStorage['bus_bookings']: the list last saved
    now,        \* the clock: what Date.now() / new Date() returns next
    tzOffset,   \* the browser's time zone: local time minus UTC, in units
    last,       \* the latest call: its name, the error it threw (or Null)
                \* and how many bookings were stored when it was made; for the
                \* figures of the boarding screen also what they were
    screen      \* BoardingComponent: whether ngOnInit has run, and its
                \* signals selectedDate, bookings and boardingSequence

vars == <<bookings, stored, now, tzOffset, last, screen>>

----------------------------------------------------------------------------
(* Program constants (src/unnamed/part_002, booking.model.ts).             *)

TOTAL_ROWS == 15
SEATS_PER_ROW == 4
MAX_SEATS_PER_BOOKING == 6
BOARDING_TIME_PER_PASSENGER == 60
RANDOM_RANGE == 10000

----------------------------------------------------------------------------
(* Bounds of the model.                                                    *)

UnitsPerDay == 2    \* clock units in a day
BaseDay == 50       \* the day (UTC) on which the clock starts
ClockTicks == 1     \* how far the clock may advance past its start
MaxRandom == 0      \* Math.random() suffixes drawn: 0..MaxRandom
MaxBookings == 2    \* createBooking is not called on a longer ledger
MaxShown == 3       \* bookings on the boarding screen in BoardingSpec
MaxCrowd == 200     \* bookings of one date in CrowdSpec
MaxLedger == 3      \* createBooking is not called on a longer ledger in LedgerSpec
MaxLedgerRandom == 1    \* Math.random() suffixes drawn in LedgerSpec
MaxDrift == 1       \* how far the clock may advance within a call in DriftSpec

\* The clock starts in the last unit of BaseDay (UTC): its first tick is a
\* midnight UTC.
Clock0 == BaseDay * UnitsPerDay + UnitsPerDay - 1
MaxClock == Clock0 + ClockTicks

----------------------------------------------------------------------------
(* Strings as sequences of UTF-16 code units.                              *)

Min(a, b) == IF a <= b THEN a ELSE b

RECURSIVE Digits(_)
\* String(n) for a non-negative integer n, as a template literal prints it.
Digits(n) == IF n < 10 THEN <<48 + n>> ELSE Digits(n \div 10) \o <<48 + (n % 10)>>

RECURSIVE StrLess(_, _)
\* a < b for strings: code unit by code unit, a proper prefix first.
StrLess(a, b) ==
    IF b = <<>> THEN FALSE
    ELSE IF a = <<>> THEN TRUE
    ELSE IF a[1] # b[1] THEN a[1] < b[1]
    ELSE StrLess(Tail(a), Tail(b))

RECURSIVE Insert(_, _)
Insert(sorted, x) ==
    IF sorted = <<>> THEN <<x>>
    ELSE IF StrLess(x, sorted[1]) THEN <<x>> \o sorted
    ELSE <<sorted[1]>> \o Insert(Tail(sorted), x)

RECURSIVE SortStrings(_)
\* [...seats].sort(): the default comparator orders by code units (stable).
SortStrings(s) ==
    IF s = <<>> THEN <<>> ELSE Insert(SortStrings(SubSeq(s, 1, Len(s) - 1)), s[Len(s)])

Range(s) == {s[i] : i \in DOMAIN s}

\* `${rows[r]}${c}` for row index r and column c.
SeatId(r, c) == <<65 + r>> \o Digits(c)

getAllSeats == {SeatId(r, c) : r \in 0 .. TOTAL_ROWS - 1, c \in 1 .. SEATS_PER_ROW}

----------------------------------------------------------------------------
(* Values.                                                                 *)

Undefined == <<>>     \* an absent optional string argument

Null == [msg |-> "null", conflicts |-> <<>>]
Err(m) == [msg |-> m, conflicts |-> <<>>]

ErrNoSeats == Err("Please select at least one seat")
ErrTooMany == Err("Maximum 6 seats allowed")
ErrPastDate == Err("Please select a future date")
ErrMobile == Err("Invalid mobile number")
ErrQuota == Err("You can book only 6 seats per day")
ErrConflict(c) == [msg |-> "Seat(s) ... already booked", conflicts |-> c]
ErrNotFound == Err("Booking not found")

NoConfirmation == [bookingId |-> Undefined, travelDate |-> 0,
                   mobileNumber |-> Undefined, seats |-> <<>>]

\* The empty string as a date: selectedDate before a date is chosen.
NoDate == 0

\* BoardingComponent after construction, before ngOnInit.
ScreenClosed ==
    [opened |-> FALSE, selectedDate |-> NoDate, bookings |-> <<>>,
     boardingSequence |-> <<>>]

----------------------------------------------------------------------------
(* Dates.                                                                  *)

\* new Date(date) for a date-only ISO string: midnight UTC of that day.
ParseDate(date) == date * UnitsPerDay

\* new Date() followed by setHours(0, 0, 0, 0): the local midnight at or
\* before instant t, as an instant.
LocalMidnight(t, tz) == ((t + tz) \div UnitsPerDay) * UnitsPerDay - tz

----------------------------------------------------------------------------
(* Helpers of the service. Each reads the list of bookings it is given.    *)

\* `BK${Date.now()}${Math.floor(Math.random() * 10000)}`
generateBookingId(t, rnd) == <<66, 75>> \o Digits(t) \o Digits(rnd)

\* The Map after the bookings of the date were visited in list order, each
\* doing set(seat, bookingId) for its seats: a later booking's set() of a
\* seat replaces an earlier one's, so a seat maps to its last holder.
getSeatOwnershipByDate(list, date) ==
    LET Of == {i \in DOMAIN list : list[i].travelDate = date}
        Holders(s) == {i \in Of : s \in Range(list[i].seats)}
        Last(I) == CHOOSE i \in I : \A j \in I : j <= i
    IN  [s \in UNION {Range(list[i].seats) : i \in Of} |->
            list[Last(Holders(s))].bookingId]

RECURSIVE SumSeats(_)
SumSeats(list) ==
    IF list = <<>> THEN 0 ELSE Len(list[1].seats) + SumSeats(Tail(list))

getSeatsCountByMobile(list, mobile, date, excludeBookingId) ==
    SumSeats(SelectSeq(list, LAMBDA b :
        /\ b.mobileNumber = mobile
        /\ b.travelDate = date
        /\ b.bookingId # excludeBookingId))

\* /^\d{10}$/.test(mobile)
IsTenDigits(mobile) ==
    /\ Len(mobile) = 10
    /\ \A i \in 1 .. Len(mobile) : mobile[i] \in 48 .. 57

\* seats.filter(seat => owner exists and owner !== existingBookingId)
Conflicts(list, date, seats, existingBookingId) ==
    LET ownership == getSeatOwnershipByDate(list, date)
    IN  SelectSeq(seats, LAMBDA seat :
            /\ seat \in DOMAIN ownership
            /\ ownership[seat] # existingBookingId)

\* validateBooking with the mobile format tested before the date.
validateBookingMobileFirst(list, t, tz, mobile, date, seats, existingBookingId) ==
    IF Len(seats) = 0 THEN ErrNoSeats
    ELSE IF Len(seats) > MAX_SEATS_PER_BOOKING THEN ErrTooMany
    ELSE IF ~IsTenDigits(mobile) THEN ErrMobile
    ELSE IF ParseDate(date) < LocalMidnight(t, tz) THEN ErrPastDate
    ELSE IF getSeatsCountByMobile(list, mobile, date, existingBookingId)
              + Len(seats) > MAX_SEATS_PER_BOOKING THEN ErrQuota
    ELSE IF Len(Conflicts(list, date, seats, existingBookingId)) # 0
         THEN ErrConflict(Conflicts(list, date, seats, existingBookingId))
    ELSE Null

\* The error message, or Null. t is the instant at which `new Date()` is
\* read, tz the time zone.
validateBooking(list, t, tz, mobile, date, seats, existingBookingId) ==
    IF Len(seats) = 0 THEN ErrNoSeats
    ELSE IF Len(seats) > MAX_SEATS_PER_BOOKING THEN ErrTooMany
    ELSE IF ParseDate(date) < LocalMidnight(t, tz) THEN ErrPastDate
    ELSE IF ~IsTenDigits(mobile) THEN ErrMobile
    ELSE IF getSeatsCountByMobile(list, mobile, date, existingBookingId)
              + Len(seats) > MAX_SEATS_PER_BOOKING THEN ErrQuota
    ELSE IF Len(Conflicts(list, date, seats, existingBookingId)) # 0
         THEN ErrConflict(Conflicts(list, date, seats, existingBookingId))
    ELSE Null

\* this.bookings().find(b => b.bookingId === id): its index, 0 if absent.
FindIndex(list, id) ==
    IF \E i \in DOMAIN list : list[i].bookingId = id
    THEN CHOOSE i \in DOMAIN list :
            /\ list[i].bookingId = id
            /\ \A j \in 1 .. i - 1 : list[j].bookingId # id
    ELSE 0

RECURSIVE Reverse(_)
Reverse(s) == IF s = <<>> THEN <<>> ELSE Append(Reverse(Tail(s)), s[1])

\* getBookingsByDate that returns the latest booking first.
getBookingsByDateNewestFirst(list, date) ==
    Reverse(SelectSeq(list, LAMBDA b : b.travelDate = date))

getBookingsByDate(list, date) == SelectSeq(list, LAMBDA b : b.travelDate = date)

----------------------------------------------------------------------------
(* Operations. Each is the method as a function of the ledger it runs on,  *)
(* the instant t at which it is entered and the browser's time zone; it    *)
(* yields an outcome: the error thrown (or Null), the list of bookings     *)
(* afterwards, the value returned, the instant of its last clock read and  *)
(* whether it went on to call saveBookings().                              *)

Outcome(error, list, ret, clock, saves) ==
    [error |-> error, bookings |-> list, ret |-> ret, clock |-> clock, saves |-> saves]

\* throw new Error(error): nothing after it runs.
Throw(error, list, t) == Outcome(error, list, NoConfirmation, t, FALSE)

\* createBooking that appends the booking before it validates.
createBookingAppendFirst(list, t, tz, mobile, date, seats, rnd, ts) ==
    LET booking == [bookingId |-> generateBookingId(ts[1], rnd),
                    travelDate |-> date,
                    mobileNumber |-> mobile,
                    seats |-> SortStrings(seats),
                    isBoarded |-> FALSE,
                    createdAt |-> ts[2],
                    updatedAt |-> ts[3]]
        error == validateBooking(list, t, tz, mobile, date, seats, Undefined)
    IN  Outcome(error, Append(list, booking),
                IF error # Null THEN NoConfirmation
                ELSE [bookingId |-> booking.bookingId,
                      travelDate |-> booking.travelDate,
                      mobileNumber |-> booking.mobileNumber,
                      seats |-> booking.seats],
                ts[3], error = Null)

\* createBooking whose confirmation carries the seats in the order given.
createBookingEchoSeats(list, t, tz, mobile, date, seats, rnd, ts) ==
    LET error == validateBooking(list, t, tz, mobile, date, seats, Undefined)
        booking == [bookingId |-> generateBookingId(ts[1], rnd),
                    travelDate |-> date,
                    mobileNumber |-> mobile,
                    seats |-> SortStrings(seats),
                    isBoarded |-> FALSE,
                    createdAt |-> ts[2],
                    updatedAt |-> ts[3]]
    IN  IF error # Null THEN Throw(error, list, t)
        ELSE Outcome(Null, Append(list, booking),
                     [bookingId |-> booking.bookingId,
                      travelDate |-> booking.travelDate,
                      mobileNumber |-> booking.mobileNumber,
                      seats |-> seats],
                     ts[3], TRUE)

\* ts[1]: Date.now() of the id; ts[2], ts[3]: the two `new Date()`.
createBooking(list, t, tz, mobile, date, seats, rnd, ts) ==
    LET error == validateBooking(list, t, tz, mobile, date, seats, Undefined)
        booking == [bookingId |-> generateBookingId(ts[1], rnd),
                    travelDate |-> date,
                    mobileNumber |-> mobile,
                    seats |-> SortStrings(seats),
                    isBoarded |-> FALSE,
                    createdAt |-> ts[2],
                    updatedAt |-> ts[3]]
    IN  IF error # Null THEN Throw(error, list, t)
        ELSE Outcome(Null, Append(list, booking),
                     [bookingId |-> booking.bookingId,
                      travelDate |-> booking.travelDate,
                      mobileNumber |-> booking.mobileNumber,
                      seats |-> booking.seats],
                     ts[3], TRUE)

\* The instant of the last clock read made while mapping over the list:
\* `new Date()` is evaluated for each booking with this id, ts[k] for the
\* k-th booking.
ClockAfter(list, id, t, ts) ==
    IF \E i \in DOMAIN list : list[i].bookingId = id
    THEN ts[CHOOSE i \in DOMAIN list :
                /\ list[i].bookingId = id
                /\ \A j \in i + 1 .. Len(list) : list[j].bookingId # id]
    ELSE t

\* updateBooking that validates the seat count before it looks the booking up.
updateBookingValidateFirst(list, t, tz, bookingId, seats, ts) ==
    LET i == FindIndex(list, bookingId)
        booking == list[i]
        error == validateBooking(list, t, tz, booking.mobileNumber,
                                 booking.travelDate, seats, bookingId)
    IN  IF Len(seats) = 0 THEN Throw(ErrNoSeats, list, t)
        ELSE IF i = 0 THEN Throw(ErrNotFound, list, t)
        ELSE IF error # Null THEN Throw(error, list, t)
        ELSE Outcome(Null,
                     [k \in DOMAIN list |->
                        IF list[k].bookingId = bookingId
                        THEN [list[k] EXCEPT !.seats = SortStrings(seats),
                                             !.updatedAt = ts[k]]
                        ELSE list[k]],
                     [bookingId |-> bookingId,
                      travelDate |-> booking.travelDate,
                      mobileNumber |-> booking.mobileNumber,
                      seats |-> SortStrings(seats)],
                     ClockAfter(list, bookingId, t, ts), TRUE)

\* updateBooking that stores the seats in the order given.
updateBookingUnsorted(list, t, tz, bookingId, seats, ts) ==
    LET i == FindIndex(list, bookingId)
        booking == list[i]
        error == validateBooking(list, t, tz, booking.mobileNumber,
                                 booking.travelDate, seats, bookingId)
    IN  IF i = 0 THEN Throw(ErrNotFound, list, t)
        ELSE IF error # Null THEN Throw(error, list, t)
        ELSE Outcome(Null,
                     [k \in DOMAIN list |->
                        IF list[k].bookingId = bookingId
                        THEN [list[k] EXCEPT !.seats = seats, !.updatedAt = ts[k]]
                        ELSE list[k]],
                     [bookingId |-> bookingId,
                      travelDate |-> booking.travelDate,
                      mobileNumber |-> booking.mobileNumber,
                      seats |-> SortStrings(seats)],
                     ClockAfter(list, bookingId, t, ts), TRUE)

updateBooking(list, t, tz, bookingId, seats, ts) ==
    LET i == FindIndex(list, bookingId)
        booking == list[i]
        error == validateBooking(list, t, tz, booking.mobileNumber,
                                 booking.travelDate, seats, bookingId)
    IN  IF i = 0 THEN Throw(ErrNotFound, list, t)
        ELSE IF error # Null THEN Throw(error, list, t)
        ELSE Outcome(Null,
                     [k \in DOMAIN list |->
                        IF list[k].bookingId = bookingId
                        THEN [list[k] EXCEPT !.seats = SortStrings(seats),
                                             !.updatedAt = ts[k]]
                        ELSE list[k]],
                     [bookingId |-> bookingId,
                      travelDate |-> booking.travelDate,
                      mobileNumber |-> booking.mobileNumber,
                      seats |-> SortStrings(seats)],
                     ClockAfter(list, bookingId, t, ts), TRUE)

\* deleteBooking that removes the first booking with the id only.
deleteBookingFirstOnly(list, t, bookingId) ==
    LET i == FindIndex(list, bookingId)
    IN  Outcome(Null,
                IF i = 0 THEN list
                ELSE SubSeq(list, 1, i - 1) \o SubSeq(list, i + 1, Len(list)),
                NoConfirmation, t, TRUE)

deleteBooking(list, t, bookingId) ==
    Outcome(Null, SelectSeq(list, LAMBDA b : b.bookingId # bookingId),
            NoConfirmation, t, TRUE)

\* markAsBoarded that raises when no booking has the id.
markAsBoardedStrict(list, t, bookingId, boarded, ts) ==
    IF FindIndex(list, bookingId) = 0 THEN Throw(ErrNotFound, list, t)
    ELSE Outcome(Null,
            [k \in DOMAIN list |->
                IF list[k].bookingId = bookingId
                THEN [list[k] EXCEPT !.isBoarded = boarded, !.updatedAt = ts[k]]
                ELSE list[k]],
            NoConfirmation, ClockAfter(list, bookingId, t, ts), TRUE)

markAsBoarded(list, t, bookingId, boarded, ts) ==
    Outcome(Null,
            [k \in DOMAIN list |->
                IF list[k].bookingId = bookingId
                THEN [list[k] EXCEPT !.isBoarded = boarded, !.updatedAt = ts[k]]
                ELSE list[k]],
            NoConfirmation, ClockAfter(list, bookingId, t, ts), TRUE)

clearAllBookings(t) == Outcome(Null, <<>>, NoConfirmation, t, TRUE)

\* localStorage.setItem(...) inside try/catch: a failure leaves the stored
\* value as it was and reaches no caller.
saveBookings(old, list, ok) == IF ok THEN list ELSE old

----------------------------------------------------------------------------
(* The boarding algorithm.                                                 *)

RECURSIVE ToNumber(_)
\* Number(s) for a string of decimal digits; Number("") is 0.
ToNumber(s) ==
    IF s = <<>> THEN 0
    ELSE 10 * ToNumber(SubSeq(s, 1, Len(s) - 1)) + (s[Len(s)] - 48)

\* Math.max(...) of a non-empty set of numbers.
Max(S) == CHOOSE x \in S : \A y \in S : y <= x

getSeatPosition(seatId) ==
    LET row == seatId[1] - 65
        col == ToNumber(Tail(seatId)) - 1
    IN  row * SEATS_PER_ROW + col

\* Of a booking that holds at least one seat, as every stored booking does.
getFarthestSeatPosition(booking) ==
    Max({getSeatPosition(booking.seats[k]) : k \in DOMAIN booking.seats})

\* A place that puts a booking before the earlier ones of the same position.
SortPlaceTiesFirst(pos, k) ==
    Cardinality({j \in DOMAIN pos : pos[j] - pos[k] > 0})
        + Cardinality({j \in DOMAIN pos : j >= k /\ pos[j] - pos[k] = 0})

\* Where Array.prototype.sort with the comparator
\* (a, b) => farthest(b) - farthest(a) puts entry k of an array whose
\* entries have the farthest positions pos: after the entries the
\* comparator orders before it and, the sort being stable, after the
\* earlier entries it ties with.
SortPlace(pos, k) ==
    Cardinality({j \in DOMAIN pos : pos[j] - pos[k] > 0})
        + Cardinality({j \in DOMAIN pos : j <= k /\ pos[j] - pos[k] = 0})

calculateOptimalBoardingSequence(list) ==
    LET pos == [k \in DOMAIN list |-> getFarthestSeatPosition(list[k])]
        place == [k \in DOMAIN list |-> SortPlace(pos, k)]
        sorted == [i \in DOMAIN list |-> list[CHOOSE k \in DOMAIN list : place[k] = i]]
        sequence == [i \in 1 .. Len(sorted) |->
                        [sequence |-> i,
                         booking |-> sorted[i],
                         estimatedBoardingTime |-> BOARDING_TIME_PER_PASSENGER]]
    IN  \* the comparisons make TLC tabulate pos and place once, not per entry
        IF pos = pos /\ place = place THEN sequence ELSE sequence

\* A total time that adds up the time of every passenger.
calculateTotalBoardingTimeCumulative(list) == Len(list) * BOARDING_TIME_PER_PASSENGER

calculateTotalBoardingTime(list) ==
    IF Len(list) # 0 THEN BOARDING_TIME_PER_PASSENGER ELSE 0

calculateSequentialBoardingTime(list) == Len(list) * BOARDING_TIME_PER_PASSENGER

\* BoardingComponent: the computed signals over the bookings it shows.
totalBoardingTime(list) ==
    IF Len(list) > 0 THEN calculateTotalBoardingTime(list) ELSE 0

sequentialBoardingTime(list) ==
    IF Len(list) > 0 THEN calculateSequentialBoardingTime(list) ELSE 0

\* Math.round(p / q) for p >= 0 and q > 0: halves go up.
Round(p, q) == (2 * p + q) \div (2 * q)

getEfficiency(list) ==
    LET sequential == sequentialBoardingTime(list)
        optimal == totalBoardingTime(list)
    IN  IF sequential = 0 THEN 0
        ELSE Round((sequential - optimal) * 100, sequential)

----------------------------------------------------------------------------
(* Inputs the operations are called with.                                  *)

A1 == SeatId(0, 1)
A2 == SeatId(0, 2)
A3 == SeatId(0, 3)
A4 == SeatId(0, 4)
B1 == SeatId(1, 1)
B2 == SeatId(1, 2)
B3 == SeatId(1, 3)
D4 == SeatId(3, 4)

SeatLists ==
    { <<>>,                               \* nothing selected
      <<A1>>,
      <<D4>>,
      <<B3, A1>>,                         \* not in sorted order
      <<A1, A1>>,                         \* one seat twice
      <<A2, A3, A4, B1>>,
      <<A1, A2, A3, A4, B1, B2, B3>> }    \* more than the maximum

Mobile1 == <<57, 56, 55, 54, 53, 52, 51, 50, 49, 48>>    \* "9876543210"
Mobile2 == <<57, 49, 50, 51, 52, 53, 54, 55, 56, 57>>    \* "9123456789"
MobileShort == <<49, 50, 51>>                            \* "123"

Mobiles == {Mobile1, Mobile2, MobileShort}

Dates == BaseDay - 1 .. BaseDay + 1

\* Local time minus UTC, in clock units: west of, at and east of Greenwich.
TzOffsets == {-1, 0, 1}

Randoms == 0 .. Min(MaxRandom, RANDOM_RANGE - 1)

\* The ids createBooking can hand out here, and one it never hands out.
GhostId == generateBookingId(Clock0, RANDOM_RANGE - 1)
BookingIds ==
    {generateBookingId(t, r) : t \in Clock0 .. MaxClock, r \in Randoms} \cup {GhostId}

\* What n successive reads of the clock return when the call is entered at
\* instant t and the clock advances by at most `drift` meanwhile.
Reads(t, n, drift) ==
    {ts \in [1 .. n -> t .. Min(t + drift, MaxClock)] :
        \A i \in 1 .. n - 1 : ts[i] <= ts[i + 1]}

----------------------------------------------------------------------------
(* The service as a state machine: Call makes the outcome of a method the  *)
(* next state.                                                             *)

\* A call that lets the failure of the write reach its caller and takes the
\* change of the list back.
CallRaising(op, out, saveOk) ==
    /\ bookings' = IF out.saves /\ ~saveOk THEN bookings ELSE out.bookings
    /\ stored' = IF out.saves THEN saveBookings(stored, out.bookings, saveOk) ELSE stored
    /\ now' = out.clock
    /\ last' = [op |-> op,
                error |-> IF out.saves /\ ~saveOk THEN Err("QuotaExceededError")
                          ELSE out.error,
                before |-> Len(bookings)]
    /\ UNCHANGED tzOffset

Call(op, out, saveOk) ==
    /\ bookings' = out.bookings
    /\ stored' = IF out.saves THEN saveBookings(stored, out.bookings, saveOk) ELSE stored
    /\ now' = out.clock
    /\ last' = [op |-> op, error |-> out.error, before |-> Len(bookings)]
    /\ UNCHANGED tzOffset

CreateWith(mobiles, dates, lists, drift, saves) ==
    /\ Len(bookings) < MaxBookings
    /\ \E mobile \in mobiles, date \in dates, seats \in lists, rnd \in Randoms,
          ts \in Reads(now, 3, drift), saveOk \in saves :
            Call("createBooking",
                 createBooking(bookings, now, tzOffset, mobile, date, seats, rnd, ts),
                 saveOk)
    /\ UNCHANGED screen

UpdateWith(lists, drift, saves) ==
    /\ \E id \in BookingIds, seats \in lists,
          ts \in Reads(now, Len(bookings), drift), saveOk \in saves :
            Call("updateBooking",
                 updateBooking(bookings, now, tzOffset, id, seats, ts), saveOk)
    /\ UNCHANGED screen

DeleteWith(saves) ==
    /\ \E id \in BookingIds, saveOk \in saves :
          Call("deleteBooking", deleteBooking(bookings, now, id), saveOk)
    /\ UNCHANGED screen

BoardWith(drift, saves) ==
    /\ \E id \in BookingIds, boarded \in BOOLEAN,
          ts \in Reads(now, Len(bookings), drift), saveOk \in saves :
            Call("markAsBoarded", markAsBoarded(bookings, now, id, boarded, ts), saveOk)
    /\ UNCHANGED screen

ClearWith(saves) ==
    /\ \E saveOk \in saves : Call("clearAllBookings", clearAllBookings(now), saveOk)
    /\ UNCHANGED screen

\* Time passes between two calls.
Tick ==
    /\ now < MaxClock
    /\ now' = now + 1
    /\ UNCHANGED <<bookings, stored, tzOffset, last, screen>>

\* The service after construction on an empty localStorage.
InitWith(zones) ==
    /\ bookings = <<>>
    /\ stored = <<>>
    /\ now = Clock0
    /\ tzOffset \in zones
    /\ last = [op |-> "constructor", error |-> Null, before |-> 0]
    /\ screen = ScreenClosed

----------------------------------------------------------------------------
(* Spec: a browser whose localStorage accepts every write; no call lasts   *)
(* long enough for the clock to advance while it runs.                     *)

Init == InitWith(TzOffsets)

Create == CreateWith(Mobiles, Dates, SeatLists, 0, {TRUE})
Update == UpdateWith(SeatLists, 0, {TRUE})
Delete == DeleteWith({TRUE})
Board == BoardWith(0, {TRUE})
Clear == ClearWith({TRUE})

Next == Create \/ Update \/ Delete \/ Board \/ Clear \/ Tick

Spec == Init /\ [][Next]_vars

----------------------------------------------------------------------------
(* BoardingSpec: the boarding screen (BoardingComponent) over a ledger of  *)
(* one travel date, today's: any list of at most MaxShown of the           *)
(* passengers below, bookings of equal farthest position included. The     *)
(* screen is opened, the date is changed, passengers are marked boarded.   *)

O4 == SeatId(TOTAL_ROWS - 1, SEATS_PER_ROW)

Passenger(k, mobile, seats) ==
    [bookingId |-> generateBookingId(Clock0, k),
     travelDate |-> BaseDay,
     mobileNumber |-> mobile,
     seats |-> seats,
     isBoarded |-> FALSE,
     createdAt |-> Clock0,
     updatedAt |-> Clock0]

Passengers ==
    { Passenger(1, Mobile1, <<A1>>),
      Passenger(2, Mobile1, <<B3>>),
      Passenger(3, Mobile1, <<D4>>),
      Passenger(4, Mobile2, <<A2, B3>>),      \* as far back as B3
      Passenger(5, Mobile2, <<A4, O4>>) }     \* the last seat of the bus

ShownLists == UNION {[1 .. n -> Passengers] : n \in 0 .. MaxShown}

BoardingInit ==
    /\ bookings \in ShownLists
    /\ stored = bookings
    /\ now = Clock0
    /\ tzOffset = 0
    /\ last = [op |-> "constructor", error |-> Null, before |-> 0]
    /\ screen = ScreenClosed

\* BoardingComponent.TODAY: new Date().toISOString().split('T')[0], the UTC
\* date of the clock.
TODAY(t) == t \div UnitsPerDay

\* BoardingComponent.loadBookings() on the screen scr over the ledger list:
\* nothing for an empty selectedDate, else the bookings of the date and
\* their boarding sequence.
loadBookings(scr, list) ==
    IF scr.selectedDate = NoDate THEN scr
    ELSE LET shown == getBookingsByDate(list, scr.selectedDate)
         IN  [scr EXCEPT !.bookings = shown,
                         !.boardingSequence =
                             IF Len(shown) > 0
                             THEN calculateOptimalBoardingSequence(shown)
                             ELSE <<>>]

\* BoardingComponent.ngOnInit(), once after construction.
NgOnInit ==
    /\ ~screen.opened
    /\ screen' = loadBookings([screen EXCEPT !.opened = TRUE,
                                              !.selectedDate = TODAY(now)],
                              bookings)
    /\ last' = [op |-> "ngOnInit", error |-> Null, before |-> Len(bookings)]
    /\ UNCHANGED <<bookings, stored, now, tzOffset>>

\* The date input writes selectedDate (the empty string when it is cleared)
\* and BoardingComponent.onDateChange() loads the bookings.
OnDateChange ==
    /\ screen.opened
    /\ \E date \in Dates \cup {NoDate} :
          screen' = loadBookings([screen EXCEPT !.selectedDate = date], bookings)
    /\ last' = [op |-> "onDateChange", error |-> Null, before |-> Len(bookings)]
    /\ UNCHANGED <<bookings, stored, now, tzOffset>>

\* BoardingComponent.toggleBoarding(bookingId, currentStatus) for a booking
\* of the screen or an id that no booking has: markAsBoarded, then
\* loadBookings over the ledger it left.
ToggleBoarding ==
    /\ screen.opened
    /\ \E id \in {screen.bookings[i].bookingId : i \in DOMAIN screen.bookings}
                      \cup {GhostId},
          currentStatus \in BOOLEAN,
          ts \in Reads(now, Len(bookings), 0) :
            LET out == markAsBoarded(bookings, now, id, ~currentStatus, ts)
            IN  /\ Call("toggleBoarding", out, TRUE)
                /\ screen' = loadBookings(screen, out.bookings)

\* The figures the screen shows for the bookings it has loaded.
ShowTimes ==
    /\ last' = [op |-> "getEfficiency", error |-> Null, before |-> Len(bookings),
                ret |-> [total |-> totalBoardingTime(screen.bookings),
                         sequential |-> sequentialBoardingTime(screen.bookings),
                         efficiency |-> getEfficiency(screen.bookings)]]
    /\ UNCHANGED <<bookings, stored, now, tzOffset, screen>>

BoardingNext == NgOnInit \/ OnDateChange \/ ToggleBoarding \/ ShowTimes

BoardingSpec == BoardingInit /\ [][BoardingNext]_vars

----------------------------------------------------------------------------
(* CrowdSpec: today's date is booked one seat at a time, each mobile       *)
(* taking its six seats, first the seats of the bus and then seat ids past *)
(* its last row, which createBooking accepts as well; then the boarding    *)
(* screen is opened and shows the date.                                    *)

\* The n-th seat id, four to a row: A1 .. A4, B1 .. ; past O4 it goes on
\* with the code units after "O".
CrowdSeat(n) == SeatId((n - 1) \div SEATS_PER_ROW, ((n - 1) % SEATS_PER_ROW) + 1)

\* "9876543100", "9876543101", ...
CrowdMobile(k) == <<57, 56, 55, 54, 53, 52, 51>> \o Digits(100 + k)

CrowdInit == InitWith({0})

\* createBooking of the next seat, before the screen is opened; the random
\* suffix differs each time, so that no two bookingIds are equal.
CrowdCreate ==
    LET n == Len(bookings)
    IN  /\ n < MaxCrowd
        /\ ~screen.opened
        /\ UNCHANGED screen
        /\ Call("createBooking",
                createBooking(bookings, now, tzOffset,
                              CrowdMobile(n \div MAX_SEATS_PER_BOOKING), BaseDay,
                              <<CrowdSeat(n + 1)>>, n % RANDOM_RANGE, <<now, now, now>>),
                TRUE)

CrowdNext == CrowdCreate \/ NgOnInit \/ ShowTimes

CrowdSpec == CrowdInit /\ [][CrowdNext]_vars

----------------------------------------------------------------------------
(* StorageSpec: a browser whose localStorage may refuse any write (quota   *)
(* exceeded, storage disabled), at UTC, with one mobile booking one date.  *)

StorageLists == {<<>>, <<A1>>, <<D4>>}

StorageInit == InitWith({0})

StorageCreate == CreateWith({Mobile1}, {BaseDay + 1}, StorageLists, 0, BOOLEAN)
StorageUpdate == UpdateWith(StorageLists, 0, BOOLEAN)
StorageDelete == DeleteWith(BOOLEAN)
StorageBoard == BoardWith(0, BOOLEAN)
StorageClear == ClearWith(BOOLEAN)

StorageNext ==
    \/ StorageCreate
    \/ StorageUpdate
    \/ StorageDelete
    \/ StorageBoard
    \/ StorageClear
    \/ Tick

StorageSpec == StorageInit /\ [][StorageNext]_vars

----------------------------------------------------------------------------
(* LedgerSpec: a ledger of up to MaxLedger bookings, at UTC and within one *)
(* clock value: one mobile books A1 or D4 for today or tomorrow, and two   *)
(* random suffixes are drawn, so that bookingIds can be equal or differ.   *)

LedgerLists == {<<A1>>, <<D4>>}

LedgerInit == InitWith({0})

LedgerCreate ==
    /\ Len(bookings) < MaxLedger
    /\ \E date \in {BaseDay, BaseDay + 1}, seats \in LedgerLists,
          rnd \in 0 .. Min(MaxLedgerRandom, RANDOM_RANGE - 1) :
            Call("createBooking",
                 createBooking(bookings, now, tzOffset, Mobile1, date, seats, rnd,
                               <<now, now, now>>),
                 TRUE)
    /\ UNCHANGED screen

LedgerUpdate == UpdateWith(LedgerLists, 0, {TRUE})
LedgerDelete == DeleteWith({TRUE})

LedgerNext == LedgerCreate \/ LedgerUpdate \/ LedgerDelete

LedgerSpec == LedgerInit /\ [][LedgerNext]_vars

----------------------------------------------------------------------------
(* DriftSpec: the clock may advance between two reads made by one call (a  *)
(* millisecond boundary falls inside the call); UTC, one mobile, one date. *)

DriftLists == {<<>>, <<A1>>, <<D4>>}

DriftInit == InitWith({0})

DriftCreate == CreateWith({Mobile1}, {BaseDay + 1}, DriftLists, MaxDrift, {TRUE})
DriftUpdate == UpdateWith(DriftLists, MaxDrift, {TRUE})
DriftDelete == DeleteWith({TRUE})
DriftBoard == BoardWith(MaxDrift, {TRUE})

DriftNext == DriftCreate \/ DriftUpdate \/ DriftDelete \/ DriftBoard \/ Tick

DriftSpec == DriftInit /\ [][DriftNext]_vars

----------------------------------------------------------------------------
(* AnySeatSpec: the callers pass seat lists of arbitrary strings, as the    *)
(* type string[] allows; UTC, one date.                                    *)

A5 == <<65, 53>>    \* "A5": a row of the layout, a column beyond it
Z9 == <<90, 57>>    \* "Z9": a row and a column beyond the layout

AnySeatLists ==
    { <<>>,
      <<A1>>,
      <<A5>>,
      <<Z9, A1>>,
      <<A1, A2, A3, A4, B1, B2, B3>> }

AnySeatInit == InitWith({0})

AnySeatCreate == CreateWith({Mobile1, MobileShort}, {BaseDay + 1}, AnySeatLists, 0, {TRUE})
AnySeatUpdate == UpdateWith(AnySeatLists, 0, {TRUE})

AnySeatNext == AnySeatCreate \/ AnySeatUpdate \/ Tick

AnySeatSpec == AnySeatInit /\ [][AnySeatNext]_vars

----------------------------------------------------------------------------
(* Claims about the ledger.                                                *)

Ids(list) == {list[i].bookingId : i \in DOMAIN list}

HasDuplicate(s) == \E i, j \in DOMAIN s : i < j /\ s[i] = s[j]

\* C1. Seat exclusivity: no seat identifier is in the seats of two different
\* stored bookings that have the same travelDate.
SeatExclusivity ==
    \A i, j \in DOMAIN bookings :
        (i < j /\ bookings[i].travelDate = bookings[j].travelDate)
            => Range(bookings[i].seats) \cap Range(bookings[j].seats) = {}

\* C2. Quota bound: for every (mobileNumber, travelDate) pair the seat counts
\* of the stored bookings matching it sum to at most 6.
QuotaBound ==
    \A i \in DOMAIN bookings :
        SumSeats(SelectSeq(bookings, LAMBDA b :
            /\ b.mobileNumber = bookings[i].mobileNumber
            /\ b.travelDate = bookings[i].travelDate)) <= 6

\* C3. Every stored booking's seats list is non-empty and has no duplicate
\* entries, whatever seat lists createBooking and updateBooking were given.
SeatsDistinct ==
    \A i \in DOMAIN bookings :
        /\ bookings[i].seats # <<>>
        /\ ~HasDuplicate(bookings[i].seats)

\* C4. bookingId is globally unique: no two stored bookings have the same
\* bookingId.
BookingIdUnique ==
    \A i, j \in DOMAIN bookings :
        i < j => bookings[i].bookingId # bookings[j].bookingId

----------------------------------------------------------------------------
(* Claims about validateBooking.                                           *)

ExistingIds == BookingIds \cup {Undefined}

\* The date check as the validation makes it: the travel date, taken as its
\* own midnight, is not before the local midnight of the current instant.
\* (How this relates to calendar days in each time zone is claim C18.)
NotInPast(date) == ParseDate(date) >= LocalMidnight(now, tzOffset)

RECURSIVE HeldUpTo(_, _, _, _)
\* Seats held on a date by those of the first n bookings that are of the
\* mobile and whose id is not `except`.
HeldUpTo(n, mobile, date, except) ==
    IF n = 0 THEN 0
    ELSE HeldUpTo(n - 1, mobile, date, except)
         + (IF /\ bookings[n].mobileNumber = mobile
               /\ bookings[n].travelDate = date
               /\ bookings[n].bookingId # except
            THEN Len(bookings[n].seats) ELSE 0)

HeldBy(mobile, date, except) == HeldUpTo(Len(bookings), mobile, date, except)

\* Whether each of the six checks passes, in the order of the claim. The
\* owner of a seat is the one the ledger reports for the date (that it is
\* the seat's holder is claim C17).
SixChecks(mobile, date, seats, existingBookingId) ==
    LET ownership == getSeatOwnershipByDate(bookings, date)
    IN  << seats # <<>>,
           Len(seats) <= 6,
           NotInPast(date),
           Len(mobile) = 10 /\ \A k \in DOMAIN mobile : mobile[k] \in 48 .. 57,
           HeldBy(mobile, date, existingBookingId) + Len(seats) <= 6,
           \A k \in DOMAIN seats :
               seats[k] \in DOMAIN ownership => ownership[seats[k]] = existingBookingId >>

SixMessages ==
    << ErrNoSeats.msg, ErrTooMany.msg, ErrPastDate.msg, ErrMobile.msg, ErrQuota.msg,
       ErrConflict(<<>>).msg >>

FirstFailing(checks) ==
    IF \A k \in DOMAIN checks : checks[k] THEN 0
    ELSE CHOOSE k \in DOMAIN checks :
            ~checks[k] /\ \A j \in 1 .. k - 1 : checks[j]

ExpectedMessage(mobile, date, seats, existingBookingId) ==
    LET k == FirstFailing(SixChecks(mobile, date, seats, existingBookingId))
    IN  IF k = 0 THEN Null.msg ELSE SixMessages[k]

\* C5. validateBooking is fail-fast in a fixed order: on every ledger and
\* for every input it returns the message of the first failing check among
\* (1) seats non-empty, (2) at most 6 seats, (3) date not in the past,
\* (4) mobile of exactly 10 digits, (5) quota of the mobile on that date,
\* not counting existingBookingId, (6) no requested seat owned by a booking
\* other than existingBookingId; and Null iff all six pass.
ValidateFailFast ==
    \A mobile \in Mobiles, date \in Dates, seats \in SeatLists, id \in ExistingIds :
        validateBooking(bookings, now, tzOffset, mobile, date, seats, id).msg
            = ExpectedMessage(mobile, date, seats, id)

\* A call was rejected by the last check (a seat conflict), on a ledger and
\* at an instant where each of the other five messages and Null are also
\* what some input gets, and where "123" with a past date gets the date
\* message.
ValidateFailFastWitness ==
    /\ last.op \in {"createBooking", "updateBooking"}
    /\ last.error.msg = ErrConflict(<<>>).msg
    /\ \A m \in Range(SixMessages) \cup {Null.msg} :
          \E mobile \in Mobiles, date \in Dates, seats \in SeatLists, id \in ExistingIds :
              validateBooking(bookings, now, tzOffset, mobile, date, seats, id).msg = m
    /\ \E date \in Dates :
          /\ ~NotInPast(date)
          /\ validateBooking(bookings, now, tzOffset, MobileShort, date, <<A1>>,
                             Undefined) = ErrPastDate

----------------------------------------------------------------------------
(* Claims about the operations. Each is stated of every call that can be   *)
(* made in the current state: its outcome is compared with the ledger the  *)
(* call starts from.                                                       *)

CreateOutcomes ==
    {createBooking(bookings, now, tzOffset, mobile, date, seats, rnd, ts) :
        mobile \in Mobiles, date \in Dates, seats \in SeatLists, rnd \in Randoms,
        ts \in Reads(now, 3, 0)}

UpdateOutcomes(ids, lists) ==
    {updateBooking(bookings, now, tzOffset, id, seats, ts) :
        id \in ids, seats \in lists, ts \in Reads(now, Len(bookings), 0)}

\* C6. No partial application: whenever createBooking or updateBooking
\* fails (a validation error, or booking not found), the stored list of
\* bookings is afterwards exactly what it was before the call.
NoPartialApplication ==
    \A out \in CreateOutcomes \cup UpdateOutcomes(BookingIds, SeatLists) :
        out.error # Null => out.bookings = bookings

\* A createBooking or an updateBooking has just failed on a ledger that
\* holds bookings, and left it holding as many.
NoPartialApplicationWitness ==
    /\ last.op \in {"createBooking", "updateBooking"}
    /\ last.error # Null
    /\ bookings # <<>>
    /\ last.before = Len(bookings)

\* Booking i's seats may become S: S is non-empty, each of its seats is
\* held by booking i or by no booking of that date, and S together with
\* the seats of the other bookings of the same mobile and date is within
\* the quota.
MayBecome(i, S) ==
    LET B == bookings[i]
        Others == {j \in DOMAIN bookings : j # i /\ bookings[j].travelDate = B.travelDate}
        Mine == {j \in Others : bookings[j].mobileNumber = B.mobileNumber}
        Total[J \in SUBSET Mine] ==
            IF J = {} THEN 0
            ELSE LET j == CHOOSE x \in J : TRUE
                 IN  Len(bookings[j].seats) + Total[J \ {j}]
    IN  /\ S # <<>>
        /\ \A k \in DOMAIN S : \A j \in Others : S[k] \notin Range(bookings[j].seats)
        /\ Len(S) + Total[Mine] <= 6

\* C7. Edit self-exclusion: for a stored booking B whose travel date is not
\* in the past, updateBooking(B.bookingId, S) succeeds whenever S is
\* non-empty, every seat of S is held by B or by no booking on B's date, and
\* S with the seats of the other bookings of B's mobile on that date is at
\* most 6: B's own seats cause no conflict and do not count in the quota.
EditSelfExclusion ==
    \A i \in DOMAIN bookings, S \in SeatLists :
        (NotInPast(bookings[i].travelDate) /\ MayBecome(i, S))
            => \A out \in UpdateOutcomes({bookings[i].bookingId}, {S}) : out.error = Null

\* An updateBooking has just succeeded on a booking that keeps a seat it
\* held before (its seats share a seat with a list that may replace them
\* again), next to another booking of the same date.
EditSelfExclusionWitness ==
    /\ last.op = "updateBooking"
    /\ last.error = Null
    /\ \E i, j \in DOMAIN bookings :
          /\ i # j
          /\ bookings[i].travelDate = bookings[j].travelDate
          /\ bookings[i].bookingId # bookings[j].bookingId
          /\ bookings[i].updatedAt > bookings[i].createdAt
          /\ NotInPast(bookings[i].travelDate)
          /\ \E S \in SeatLists :
                /\ MayBecome(i, S)
                /\ Range(S) \cap Range(bookings[i].seats) # {}
                /\ Range(S) # Range(bookings[i].seats)

\* The bookings of the list, in order, whose id is not `id`.
Without(list, id) ==
    LET Keep == {i \in DOMAIN list : list[i].bookingId # id}
        Nth(k) == CHOOSE i \in Keep : Cardinality({j \in Keep : j < i}) = k - 1
    IN  [k \in 1 .. Cardinality(Keep) |-> list[Nth(k)]]

\* C8. Idempotent delete: deleteBooking(id) raises no error; it removes
\* exactly the bookings with that id and leaves the others, and their
\* order, unchanged; deleting an id that is not stored (never stored, or
\* deleted before) leaves the ledger unchanged.
DeleteIdempotent ==
    \A id \in BookingIds :
        LET out == deleteBooking(bookings, now, id)
            again == deleteBooking(out.bookings, out.clock, id)
        IN  /\ out.error = Null
            /\ out.bookings = Without(bookings, id)
            /\ id \notin Ids(bookings) => out.bookings = bookings
            /\ again.error = Null
            /\ again.bookings = out.bookings

\* A deleteBooking has just removed one of two bookings with different ids,
\* and the other is still stored.
DeleteIdempotentWitness ==
    /\ last.op = "deleteBooking"
    /\ last.error = Null
    /\ last.before = 2
    /\ Len(bookings) = 1

\* C9. updateBooking on a bookingId that is not stored fails with the
\* not-found error for every seats argument (an empty or an oversized list
\* included), and the ledger is unchanged.
UpdateNotFound ==
    \A out \in UpdateOutcomes(BookingIds \ Ids(bookings), SeatLists) :
        /\ out.error = ErrNotFound
        /\ out.bookings = bookings

\* An updateBooking has just failed with not-found on a ledger that holds
\* bookings.
UpdateNotFoundWitness ==
    /\ last.op = "updateBooking"
    /\ last.error = ErrNotFound
    /\ bookings # <<>>
    /\ last.before = Len(bookings)

IsSorted(s) == \A k \in 1 .. Len(s) - 1 : ~StrLess(s[k + 1], s[k])

Occurrences(s, x) == Cardinality({k \in DOMAIN s : s[k] = x})

SameEntries(s, r) ==
    /\ Len(s) = Len(r)
    /\ \A x \in Range(s) \cup Range(r) : Occurrences(s, x) = Occurrences(r, x)

\* C10. A successful updateBooking(id, seats) changes only the seats (to
\* the sorted new list) and updatedAt of the booking with that id: its
\* bookingId, mobileNumber, travelDate, isBoarded, createdAt and its place
\* in the list are unchanged, and every other booking is unchanged.
UpdateFrame ==
    \A id \in BookingIds, seats \in SeatLists :
        \A out \in UpdateOutcomes({id}, {seats}) :
            out.error = Null =>
                /\ Len(out.bookings) = Len(bookings)
                /\ \A k \in DOMAIN bookings :
                      IF bookings[k].bookingId = id
                      THEN /\ IsSorted(out.bookings[k].seats)
                           /\ SameEntries(out.bookings[k].seats, seats)
                           /\ out.bookings[k].updatedAt >= now
                           /\ out.bookings[k].bookingId = bookings[k].bookingId
                           /\ out.bookings[k].mobileNumber = bookings[k].mobileNumber
                           /\ out.bookings[k].travelDate = bookings[k].travelDate
                           /\ out.bookings[k].isBoarded = bookings[k].isBoarded
                           /\ out.bookings[k].createdAt = bookings[k].createdAt
                           /\ DOMAIN out.bookings[k] = DOMAIN bookings[k]
                      ELSE out.bookings[k] = bookings[k]

\* An updateBooking has just succeeded on the first of two bookings with
\* different ids: that booking is boarded, was updated after it was
\* created, and holds two seats.
UpdateFrameWitness ==
    /\ last.op = "updateBooking"
    /\ last.error = Null
    /\ Len(bookings) = 2
    /\ bookings[1].bookingId # bookings[2].bookingId
    /\ bookings[1].updatedAt = now
    /\ bookings[1].updatedAt > bookings[1].createdAt
    /\ bookings[2].seats # bookings[1].seats
    /\ bookings[1].isBoarded
    /\ Len(bookings[1].seats) = 2

BoardOutcomes(ids, flags) ==
    {markAsBoarded(bookings, now, id, boarded, ts) :
        id \in ids, boarded \in flags, ts \in Reads(now, Len(bookings), 0)}

\* C11. markAsBoarded(id, v) runs no validation and never raises: a stored
\* booking with that id gets isBoarded = v and only its isBoarded and
\* updatedAt change (seats, mobile, date, id, createdAt, its place in the
\* list and every other booking are unchanged); if the id is not stored the
\* ledger is unchanged.
BoardFrame ==
    \A id \in BookingIds, v \in BOOLEAN :
        \A out \in BoardOutcomes({id}, {v}) :
            /\ out.error = Null
            /\ Len(out.bookings) = Len(bookings)
            /\ \A k \in DOMAIN bookings :
                  IF bookings[k].bookingId = id
                  THEN /\ out.bookings[k].isBoarded = v
                       /\ out.bookings[k].updatedAt >= now
                       /\ out.bookings[k].seats = bookings[k].seats
                       /\ out.bookings[k].mobileNumber = bookings[k].mobileNumber
                       /\ out.bookings[k].travelDate = bookings[k].travelDate
                       /\ out.bookings[k].bookingId = bookings[k].bookingId
                       /\ out.bookings[k].createdAt = bookings[k].createdAt
                       /\ DOMAIN out.bookings[k] = DOMAIN bookings[k]
                  ELSE out.bookings[k] = bookings[k]
            /\ id \notin Ids(bookings) => out.bookings = bookings

\* A markAsBoarded has just been made on a ledger of two bookings with
\* different ids: the first is boarded, though its travel date is by now in
\* the past, and was updated after it was created; the second is not
\* boarded; and some id that can be passed is not stored.
BoardFrameWitness ==
    /\ last.op = "markAsBoarded"
    /\ last.error = Null
    /\ Len(bookings) = 2
    /\ bookings[1].bookingId # bookings[2].bookingId
    /\ bookings[1].isBoarded
    /\ ~bookings[2].isBoarded
    /\ bookings[1].updatedAt = now
    /\ bookings[1].updatedAt > bookings[1].createdAt
    /\ ~NotInPast(bookings[1].travelDate)
    /\ BookingIds \ Ids(bookings) # {}

\* C12. A successful createBooking(mobile, date, seats) appends exactly one
\* booking at the end of the list, with that mobile and date, the input
\* seats in sorted order and isBoarded = FALSE; the bookings stored before
\* are unchanged; the confirmation returned carries the bookingId,
\* travelDate, mobileNumber and seats of the stored booking.
CreateAppends ==
    \A mobile \in Mobiles, date \in Dates, seats \in SeatLists, rnd \in Randoms :
        \A ts \in Reads(now, 3, 0) :
            LET out == createBooking(bookings, now, tzOffset, mobile, date, seats, rnd, ts)
                n == Len(bookings)
                new == out.bookings[n + 1]
            IN  out.error = Null =>
                    /\ Len(out.bookings) = n + 1
                    /\ SubSeq(out.bookings, 1, n) = bookings
                    /\ new.mobileNumber = mobile
                    /\ new.travelDate = date
                    /\ IsSorted(new.seats)
                    /\ SameEntries(new.seats, seats)
                    /\ new.isBoarded = FALSE
                    /\ out.ret = [bookingId |-> new.bookingId,
                                  travelDate |-> new.travelDate,
                                  mobileNumber |-> new.mobileNumber,
                                  seats |-> new.seats]

\* A createBooking has just succeeded on a ledger that held one booking,
\* which is boarded: the new booking is the second, is not boarded, and
\* holds A1 and B3, given as B3, A1.
CreateAppendsWitness ==
    /\ last.op = "createBooking"
    /\ last.error = Null
    /\ last.before = 1
    /\ Len(bookings) = 2
    /\ bookings[1].isBoarded
    /\ ~bookings[2].isBoarded
    /\ bookings[2].seats = <<A1, B3>>
    /\ bookings[2].createdAt = now

----------------------------------------------------------------------------
(* Claims about the boarding algorithm.                                    *)

\* The depth of a seat of the bus: rowIndex * 4 + (column - 1).
SeatDepth(s) ==
    LET rc == CHOOSE rc \in (0 .. TOTAL_ROWS - 1) \X (1 .. SEATS_PER_ROW) :
                    SeatId(rc[1], rc[2]) = s
    IN  rc[1] * 4 + (rc[2] - 1)

\* The depth of a booking: the greatest depth of its seats.
Depth(b) ==
    CHOOSE d \in {SeatDepth(b.seats[k]) : k \in DOMAIN b.seats} :
        \A k \in DOMAIN b.seats : SeatDepth(b.seats[k]) <= d

Rearrangements(n) ==
    {p \in [1 .. n -> 1 .. n] : \A i, j \in 1 .. n : i # j => p[i] # p[j]}

SeatsOf(list) == [i \in DOMAIN list |-> list[i].seats]

\* C13. calculateOptimalBoardingSequence returns a permutation of its input
\* in order of non-increasing depth, bookings of equal depth in their input
\* order; entry i carries sequence = i and estimatedBoardingTime = 60; the
\* bookings {A1}, {B3}, {D4} come out as D4, B3, A1.
SequencerOrder ==
    LET seq == calculateOptimalBoardingSequence(bookings)
        n == Len(bookings)
    IN  /\ DOMAIN seq = 1 .. n
        /\ \E p \in Rearrangements(n) :
              /\ \A i \in 1 .. n : seq[i].booking = bookings[p[i]]
              /\ \A i, j \in 1 .. n :
                    i < j => \/ Depth(seq[i].booking) > Depth(seq[j].booking)
                             \/ /\ Depth(seq[i].booking) = Depth(seq[j].booking)
                                /\ p[i] < p[j]
        /\ \A i \in 1 .. n :
              /\ seq[i].sequence = i
              /\ seq[i].estimatedBoardingTime = 60
        /\ SeatsOf(bookings) = << <<A1>>, <<B3>>, <<D4>> >>
              => SeatsOf([i \in 1 .. n |-> seq[i].booking]) = << <<D4>>, <<B3>>, <<A1>> >>

\* The screen has just loaded the bookings {A1}, {B3}, {D4} and shows them
\* as D4, B3, A1 with ranks 1, 2, 3.
SequencerOrderWitness ==
    /\ last.op \in {"ngOnInit", "onDateChange"}
    /\ SeatsOf(bookings) = << <<A1>>, <<B3>>, <<D4>> >>
    /\ screen.bookings = bookings
    /\ [i \in DOMAIN screen.boardingSequence |->
            <<screen.boardingSequence[i].sequence,
              screen.boardingSequence[i].booking.seats>>]
          = << <<1, <<D4>>>>, <<2, <<B3>>>>, <<3, <<A1>>>> >>

\* C14. For every list of n bookings calculateTotalBoardingTime returns 60
\* if n > 0 and 0 if n = 0, and calculateSequentialBoardingTime returns
\* 60 * n; lists of the same length get the same two values, whatever their
\* seats and order (0 and 0 for the empty list, 60 and 180 for three).
BoardingTimes ==
    LET n == Len(bookings)
        total == calculateTotalBoardingTime(bookings)
        sequential == calculateSequentialBoardingTime(bookings)
    IN  /\ total = IF n > 0 THEN 60 ELSE 0
        /\ sequential = 60 * n
        /\ \A other \in ShownLists :
              Len(other) = n =>
                  /\ calculateTotalBoardingTime(other) = total
                  /\ calculateSequentialBoardingTime(other) = sequential
        /\ n = 0 => total = 0 /\ sequential = 0
        /\ n = 3 => total = 60 /\ sequential = 180

\* The screen has just computed its figures for three bookings that hold
\* different seats: 60 and 180.
BoardingTimesWitness ==
    /\ last.op = "getEfficiency"
    /\ screen.bookings = bookings
    /\ Len(bookings) = 3
    /\ bookings[1].seats # bookings[2].seats
    /\ bookings[2].seats # bookings[3].seats
    /\ last.ret.total = 60
    /\ last.ret.sequential = 180

\* C15. The efficiency shown for a date with n bookings is
\* (sequential - optimal) / sequential as a percentage rounded to the
\* nearest integer, that is round(100 * (n - 1) / n) for n >= 1 and 0 for
\* n = 0; it is always between 0 and 99, and is 67 for three bookings.
EfficiencyBounded ==
    LET n == Len(screen.bookings)
        e == getEfficiency(screen.bookings)
    IN  /\ e = IF n = 0 THEN 0 ELSE Round(100 * (n - 1), n)
        /\ e \in 0 .. 99
        /\ n = 3 => e = 67

----------------------------------------------------------------------------
(* Claims about the queries.                                               *)

\* The bookings of the list at the indices of Keep, in the order of the list.
Picked(list, Keep) ==
    LET Nth(k) == CHOOSE i \in Keep : Cardinality({j \in Keep : j < i}) = k - 1
    IN  [k \in 1 .. Cardinality(Keep) |-> list[Nth(k)]]

\* C16. getBookingsByDate(date) returns exactly the stored bookings whose
\* travelDate is date, in storage order; storage order is creation order
\* and no updateBooking or markAsBoarded changes it; for a date without
\* bookings the result is the empty list, on which the sequencer returns
\* the empty sequence and the total time 0.
BookingsByDateInOrder ==
    /\ \A date \in Dates :
          LET shown == getBookingsByDate(bookings, date)
          IN  /\ shown = Picked(bookings, {i \in DOMAIN bookings :
                                              bookings[i].travelDate = date})
              /\ (\A i \in DOMAIN bookings : bookings[i].travelDate # date)
                    => /\ shown = <<>>
                       /\ calculateOptimalBoardingSequence(shown) = <<>>
                       /\ calculateTotalBoardingTime(shown) = 0
    /\ \A i, j \in DOMAIN bookings :
          i < j => bookings[i].createdAt <= bookings[j].createdAt
    /\ \A out \in UpdateOutcomes(BookingIds, SeatLists) \cup BoardOutcomes(BookingIds, BOOLEAN) :
          /\ Len(out.bookings) = Len(bookings)
          /\ \A k \in DOMAIN bookings :
                /\ out.bookings[k].bookingId = bookings[k].bookingId
                /\ out.bookings[k].createdAt = bookings[k].createdAt
                /\ out.bookings[k].travelDate = bookings[k].travelDate

\* An updateBooking or a markAsBoarded has just succeeded on the first of
\* two bookings of one date, created at different instants: the first has
\* been changed after it was created and is still the first; another date
\* has no booking.
BookingsByDateInOrderWitness ==
    /\ last.op \in {"updateBooking", "markAsBoarded"}
    /\ last.error = Null
    /\ Len(bookings) = 2
    /\ bookings[1].travelDate = bookings[2].travelDate
    /\ bookings[1].createdAt < bookings[2].createdAt
    /\ bookings[1].updatedAt > bookings[1].createdAt
    /\ getBookingsByDate(bookings, bookings[1].travelDate) = bookings
    /\ \E date \in Dates : getBookingsByDate(bookings, date) = <<>>

\* Some booking of the list with this id has this date and holds the seat.
Holds(list, b, date, s) ==
    \E i \in DOMAIN list :
        /\ list[i].bookingId = b
        /\ list[i].travelDate = date
        /\ s \in Range(list[i].seats)

\* The map is exactly the holding relation of the list on the date.
ExactOwnership(list, date) ==
    LET ownership == getSeatOwnershipByDate(list, date)
        Seats == DOMAIN ownership \cup UNION {Range(list[i].seats) : i \in DOMAIN list}
    IN  \A s \in Seats, b \in BookingIds \cup Ids(list) :
            (s \in DOMAIN ownership /\ ownership[s] = b) <=> Holds(list, b, date, s)

DeleteOutcomes == {deleteBooking(bookings, now, id) : id \in BookingIds}

\* C17. In every reachable state getSeatOwnershipByDate(date) maps a seat
\* s to bookingId b iff the stored booking with id b has that date and
\* holds s, and maps no seat that no booking holds on that date; after any
\* update or delete the map is that of the current seats: a seat that was
\* mapped and is held no longer is not mapped.
OwnershipExact ==
    /\ \A date \in Dates : ExactOwnership(bookings, date)
    /\ \A out \in UpdateOutcomes(BookingIds, SeatLists) \cup DeleteOutcomes :
          \A date \in Dates :
              /\ ExactOwnership(out.bookings, date)
              /\ \A s \in DOMAIN getSeatOwnershipByDate(bookings, date) :
                    (\A b \in Ids(out.bookings) : ~Holds(out.bookings, b, date, s))
                        => s \notin DOMAIN getSeatOwnershipByDate(out.bookings, date)

\* An updateBooking has just succeeded on one of two bookings with
\* different ids, the other being of another date and holding a seat that
\* the first holds too; a further update or a delete would release a seat.
OwnershipExactWitness ==
    /\ last.op = "updateBooking"
    /\ last.error = Null
    /\ Len(bookings) = 2
    /\ bookings[1].bookingId # bookings[2].bookingId
    /\ bookings[1].travelDate # bookings[2].travelDate
    /\ Range(bookings[1].seats) \cap Range(bookings[2].seats) # {}
    /\ \E k \in 1 .. 2 : bookings[k].updatedAt > bookings[k].createdAt
    /\ \E out \in UpdateOutcomes(BookingIds, SeatLists) \cup DeleteOutcomes, date \in Dates :
          /\ out.error = Null
          /\ DOMAIN getSeatOwnershipByDate(out.bookings, date)
                # DOMAIN getSeatOwnershipByDate(bookings, date)

----------------------------------------------------------------------------
(* Claims about dates and persistence.                                     *)

\* The calendar day it is, at instant t, on a clock set tz ahead of UTC.
LocalDay(t, tz) == (t + tz) \div UnitsPerDay

\* C18. The date check compares dates only: for a request that passes the
\* two seat-count checks, validateBooking answers with the past-date
\* message iff the travel date's calendar day is before the current local
\* calendar day; a travel date equal to today is accepted at every time of
\* day and in every time-zone offset.
DateOnlyComparison ==
    \A mobile \in Mobiles, date \in Dates, seats \in SeatLists, id \in ExistingIds :
        Len(seats) \in 1 .. MAX_SEATS_PER_BOOKING =>
            (validateBooking(bookings, now, tzOffset, mobile, date, seats, id) = ErrPastDate
                <=> date < LocalDay(now, tzOffset))

\* What the calls that StorageSpec makes of an operation can come to, in
\* the current state.
StorageOutcomes(op) ==
    CASE op = "createBooking" ->
            {createBooking(bookings, now, tzOffset, Mobile1, BaseDay + 1, seats, rnd, ts) :
                seats \in StorageLists, rnd \in Randoms, ts \in Reads(now, 3, 0)}
      [] op = "updateBooking" -> UpdateOutcomes(BookingIds, StorageLists)
      [] op = "deleteBooking" -> DeleteOutcomes
      [] op = "markAsBoarded" -> BoardOutcomes(BookingIds, BOOLEAN)

\* C19. A failure of the save step is swallowed: in every call of
\* createBooking, updateBooking, deleteBooking and markAsBoarded, whether
\* or not the write to localStorage succeeds, the caller gets the error or
\* the normal return of the operation itself and the list in memory
\* becomes the operation's result; the stored list is then either that
\* result or, the write having failed, what it was.
SaveFailureSwallowed ==
    [][ (now' = now /\ last'.op \in {"createBooking", "updateBooking",
                                      "deleteBooking", "markAsBoarded"})
          => \E out \in StorageOutcomes(last'.op) :
                /\ last'.error = out.error
                /\ bookings' = out.bookings
                /\ \/ stored' = stored
                   \/ out.saves /\ stored' = out.bookings ]_vars

\* One of the four operations has just returned normally and the list in
\* memory, of two bookings, is not the list last stored, of one.
SaveFailureSwallowedWitness ==
    /\ last.op \in {"createBooking", "updateBooking", "deleteBooking", "markAsBoarded"}
    /\ last.error = Null
    /\ Len(bookings) = 2
    /\ Len(stored) = 1
    /\ stored # bookings

\* C20. Date scoping: validateBooking(mobile, d, seats, id) answers the
\* same on any two ledgers that hold the same bookings for date d, whatever
\* they hold for other dates, and so do createBooking for date d and
\* updateBooking of a booking of date d: each answers on the ledger as it
\* does on the bookings of date d alone.
DateScoping ==
    \A d \in Dates :
        LET ofDate == getBookingsByDate(bookings, d)
        IN  /\ \A mobile \in Mobiles, seats \in SeatLists, id \in ExistingIds :
                  validateBooking(bookings, now, tzOffset, mobile, d, seats, id)
                      = validateBooking(ofDate, now, tzOffset, mobile, d, seats, id)
            /\ \A mobile \in Mobiles, seats \in SeatLists, rnd \in Randoms :
                  \A ts \in Reads(now, 3, 0) :
                      createBooking(bookings, now, tzOffset, mobile, d, seats, rnd, ts).error
                          = createBooking(ofDate, now, tzOffset, mobile, d, seats, rnd, ts).error
            /\ \A i \in DOMAIN ofDate, seats \in SeatLists :
                  \A ts \in Reads(now, Len(bookings), 0) :
                      updateBooking(bookings, now, tzOffset, ofDate[i].bookingId, seats, ts).error
                          = updateBooking(ofDate, now, tzOffset, ofDate[i].bookingId, seats, ts).error

\* One mobile holds the same four seats on two dates, eight seats in all,
\* the second booking having just been made.
DateScopingWitness ==
    /\ last.op = "createBooking"
    /\ last.error = Null
    /\ Len(bookings) = 2
    /\ bookings[1].travelDate # bookings[2].travelDate
    /\ bookings[1].mobileNumber = bookings[2].mobileNumber
    /\ bookings[1].seats = <<A2, A3, A4, B1>>
    /\ bookings[2].seats = <<A2, A3, A4, B1>>

\* C21. Immediately after a successful createBooking the new booking's
\* createdAt equals its updatedAt, even if the clock advances during the
\* call.
CreatedIsUpdated ==
    (last.op = "createBooking" /\ last.error = Null)
        => bookings[Len(bookings)].createdAt = bookings[Len(bookings)].updatedAt

----------------------------------------------------------------------------
(* Claims about released seats and about the stored data.                  *)

RECURSIVE Held(_, _, _)
\* The seats that the bookings of a list hold for a mobile on a date.
Held(list, mobile, date) ==
    IF list = <<>> THEN 0
    ELSE Held(Tail(list), mobile, date)
         + (IF list[1].mobileNumber = mobile /\ list[1].travelDate = date
            THEN Len(list[1].seats) ELSE 0)

\* The seats that booking k no longer holds on the ledger `after`: all of
\* its seats when no booking is left at its place with its id, else those
\* that are not among the seats it has there.
Dropped(k, after) ==
    IF k \in DOMAIN after /\ after[k].bookingId = bookings[k].bookingId
    THEN Range(bookings[k].seats) \ Range(after[k].seats)
    ELSE Range(bookings[k].seats)

\* On the ledger `after`, no request for the date by another booking is
\* answered with a conflict on seat s, and the mobile's count for the date
\* is the number of seats its bookings hold there.
ReleasedOn(after, id, mobile, date, s) ==
    /\ \A m \in Mobiles, seats \in SeatLists, other \in ExistingIds \ {id} :
          s \notin Range(validateBooking(after, now, tzOffset, m, date, seats, other).conflicts)
    /\ getSeatsCountByMobile(after, mobile, date, Undefined) = Held(after, mobile, date)

\* C22. Seats are released: after deleteBooking(B), or after a successful
\* updateBooking that drops seat s from B, a createBooking or updateBooking
\* by another booking that requests s on B's date is not rejected with a
\* seat conflict on s, and the seats released no longer count in the quota
\* of B's mobile.
SeatsReleased ==
    \A k \in DOMAIN bookings :
        LET B == bookings[k]
        IN  \A out \in {deleteBooking(bookings, now, B.bookingId)}
                        \cup UpdateOutcomes({B.bookingId}, SeatLists) :
                out.error = Null =>
                    \A s \in Dropped(k, out.bookings) :
                        ReleasedOn(out.bookings, B.bookingId, B.mobileNumber,
                                   B.travelDate, s)

\* A deleteBooking or an updateBooking has just released a seat: the ledger
\* holds a booking whose date is still open, and a seat that was taken on
\* that date is free there again.
SeatsReleasedWitness ==
    /\ last.op \in {"deleteBooking", "updateBooking"}
    /\ last.error = Null
    /\ bookings # <<>>
    /\ stored = bookings
    /\ \E k \in DOMAIN bookings :
          /\ NotInPast(bookings[k].travelDate)
          /\ \/ last.before > Len(bookings)
             \/ bookings[k].updatedAt > bookings[k].createdAt
          /\ \E s \in {A1, D4} :
                s \notin DOMAIN getSeatOwnershipByDate(bookings, bookings[k].travelDate)

\* C23. On any ledger reached by createBooking, updateBooking and
\* deleteBooking, and for any date, the boarding sequence computed over
\* getBookingsByDate(date) has strictly decreasing depth from rank 1 to
\* rank n: no two bookings of one date share a depth.
StrictDepthOrder ==
    \A date \in Dates :
        LET seq == calculateOptimalBoardingSequence(getBookingsByDate(bookings, date))
        IN  \A i \in 1 .. Len(seq) - 1 :
                getFarthestSeatPosition(seq[i].booking)
                    > getFarthestSeatPosition(seq[i + 1].booking)

\* The ledger holds two bookings of one date, so that the boarding sequence
\* of that date has two ranks to compare.
StrictDepthOrderWitness ==
    /\ last.op \in {"createBooking", "updateBooking"}
    /\ last.error = Null
    /\ \E date \in Dates : Len(getBookingsByDate(bookings, date)) >= 2

\* The stored booking has a mobileNumber of ten digits and between one and
\* MAX_SEATS_PER_BOOKING seats.
WellSized(b) ==
    /\ IsTenDigits(b.mobileNumber)
    /\ Len(b.seats) \in 1 .. MAX_SEATS_PER_BOOKING

\* C24. After any sequence of createBooking and updateBooking calls with
\* seat lists of arbitrary strings, every seat identifier stored in a
\* booking is one of the 60 seats of the layout (row A..O, column 1..4),
\* and every stored booking has a mobileNumber of ten digits and between
\* one and six seats.
StoredSeatsValid ==
    \A k \in DOMAIN bookings :
        /\ \A j \in DOMAIN bookings[k].seats : bookings[k].seats[j] \in getAllSeats
        /\ WellSized(bookings[k])

\* A createBooking or an updateBooking has just stored a booking.
StoredSeatsValidWitness ==
    /\ last.op \in {"createBooking", "updateBooking"}
    /\ last.error = Null
    /\ bookings # <<>>
    /\ stored = bookings

====
